---------------------------- MODULE Spec2Model ----------------------------
(***************************************************************************)
(* A model of the zobra-slsa repository:                                   *)
(*   - convert_github_attestation.py: main and                             *)
(*     extract_provenance_from_github_attestation, step by step, over a    *)
(*     file system of named text files;                                    *)
(*   - zobra/core.py: dump_file and read_file.                             *)
(* Texts (file contents, JSON documents, base64 text, file names) are      *)
(* strings; bytes are sequences of integers 0..255.  The library functions *)
(* the code calls (base64.b64decode / b64encode, bytes.decode, json.loads, *)
(* json.dump, Path.with_suffix, readline, str.strip, argparse) are         *)
(* operators that compute what the library computes on the modelled        *)
(* subset of inputs.                                                       *)
(***************************************************************************)
EXTENDS Integers, Sequences, FiniteSets, TLC

(***************************************************************************)
(* Strings                                                                 *)
(***************************************************************************)
Ch(s, i) == SubSeq(s, i, i)

Drop(s, n) == SubSeq(s, n + 1, Len(s))

Take(s, n) == SubSeq(s, 1, n)

\* whether text t stands in s at index i
StartsAt(s, i, t) == i + Len(t) - 1 <= Len(s) /\ SubSeq(s, i, i + Len(t) - 1) = t

EndsWith(s, t) == Len(s) >= Len(t) /\ SubSeq(s, Len(s) - Len(t) + 1, Len(s)) = t

RECURSIVE FindIn(_, _, _, _)
\* the least index in lo..hi of s holding a character of set cs, or 0
\* (the range is searched by halves, left half first)
FindIn(s, cs, lo, hi) ==
    IF lo > hi THEN 0
    ELSE IF lo = hi THEN (IF Ch(s, lo) \in cs THEN lo ELSE 0)
    ELSE LET mid == (lo + hi) \div 2
             l == FindIn(s, cs, lo, mid)
         IN  IF l # 0 THEN l ELSE FindIn(s, cs, mid + 1, hi)

\* the least index >= i of s holding a character of set cs, or 0
FindFrom(s, cs, i) == FindIn(s, cs, i, Len(s))

RECURSIVE RFind(_, _, _)
\* str.rfind: the greatest index <= i of s holding character c, or 0
RFind(s, c, i) ==
    IF i < 1 THEN 0
    ELSE IF Ch(s, i) = c THEN i
    ELSE RFind(s, c, i - 1)

\* the characters str.strip() removes (those the modelled texts can hold)
Whitespace == {" ", "\t", "\n", "\r", "\f"}

RECURSIVE LStrip(_)
LStrip(s) == IF Len(s) > 0 /\ Ch(s, 1) \in Whitespace THEN LStrip(Drop(s, 1)) ELSE s

RECURSIVE RStrip(_)
RStrip(s) ==
    IF Len(s) > 0 /\ Ch(s, Len(s)) \in Whitespace THEN RStrip(Take(s, Len(s) - 1)) ELSE s

strip(s) == LStrip(RStrip(s))

(***************************************************************************)
(* ASCII: the code points 32..126, and the control characters a text of    *)
(* the model can hold.                                                     *)
(***************************************************************************)
Printable ==
    " !\"#$%&'()*+,-./0123456789:;<=>?@ABCDEFGHIJKLMNOPQRSTUVWXYZ[\\]^_\fabcdefghijklmnopqrstuvwxyz{|}~"

\* chr(b) for b < 128.  A control character other than tab, newline and
\* carriage return is shown as form feed: like it, it is no JSON whitespace
\* and is invalid inside a JSON string.  So is the backquote (code 96),
\* which a TLA+ string cannot hold; no text of the model contains one.
chr(b) ==
    IF b >= 32 /\ b <= 126 THEN Ch(Printable, b - 31)
    ELSE IF b = 10 THEN "\n"
    ELSE IF b = 13 THEN "\r"
    ELSE IF b = 9 THEN "\t"
    ELSE "\f"

ord(c) ==
    IF c = "\n" THEN 10
    ELSE IF c = "\r" THEN 13
    ELSE IF c = "\t" THEN 9
    ELSE IF c = "\f" THEN 12
    ELSE 31 + FindFrom(Printable, {c}, 1)

\* str.encode for an ASCII text
encode(s) == [i \in 1..Len(s) |-> ord(Ch(s, i))]

RECURSIVE DecodeRange(_, _, _)
\* the characters of bytes[lo..hi]
DecodeRange(bytes, lo, hi) ==
    IF lo > hi THEN ""
    ELSE IF lo = hi THEN chr(bytes[lo])
    ELSE LET mid == (lo + hi) \div 2
         IN  DecodeRange(bytes, lo, mid) \o DecodeRange(bytes, mid + 1, hi)

\* bytes.decode('utf-8'): a byte >= 0x80 that is not part of a well-formed
\* multi-byte sequence raises UnicodeDecodeError.  The model's texts are
\* ASCII, so every byte >= 0x80 it meets is such a byte.
decode_utf8(bytes) ==
    IF \E i \in 1..Len(bytes) : bytes[i] >= 128
    THEN [ok |-> FALSE, text |-> ""]
    ELSE [ok |-> TRUE, text |-> DecodeRange(bytes, 1, Len(bytes))]

(***************************************************************************)
(* base64 (binascii.a2b_base64 in its default, non-strict mode, and        *)
(* binascii.b2a_base64)                                                    *)
(***************************************************************************)
B64Alphabet == "ABCDEFGHIJKLMNOPQRSTUVWXYZabcdefghijklmnopqrstuvwxyz0123456789+/"

\* the 6-bit value of a character, or 64 for a character outside the alphabet
B64Value(c) == LET i == FindFrom(B64Alphabet, {c}, 1) IN IF i = 0 THEN 64 ELSE i - 1

\* One step of the decoder's loop on character c.  quad is the position
\* in the current group of four, left the bits carried over, pads the '='
\* seen since the last data character, done whether a pad sequence ended
\* the input.
A2BStep(st, c) ==
    LET v == B64Value(c)
    IN  IF c = "="
        THEN IF st.quad >= 2 /\ st.quad + st.pads + 1 >= 4
             THEN [st EXCEPT !.done = TRUE]
             ELSE [st EXCEPT !.pads = IF st.quad >= 2 THEN @ + 1 ELSE @]
        ELSE IF v = 64 THEN st
        ELSE IF st.quad = 0
        THEN [st EXCEPT !.quad = 1, !.left = v, !.pads = 0]
        ELSE IF st.quad = 1
        THEN [st EXCEPT !.quad = 2, !.left = v % 16, !.pads = 0,
                        !.out = Append(@, st.left * 4 + v \div 16)]
        ELSE IF st.quad = 2
        THEN [st EXCEPT !.quad = 3, !.left = v % 4, !.pads = 0,
                        !.out = Append(@, st.left * 16 + v \div 4)]
        ELSE [st EXCEPT !.quad = 0, !.left = 0, !.pads = 0,
                        !.out = Append(@, st.left * 64 + v)]

RECURSIVE A2BRange(_, _, _, _)
\* the loop over s[lo..hi], from state st (the range is walked by halves,
\* in order)
A2BRange(s, lo, hi, st) ==
    IF st.done \/ lo > hi THEN st
    ELSE IF lo = hi THEN A2BStep(st, Ch(s, lo))
    ELSE LET mid == (lo + hi) \div 2
         IN  A2BRange(s, mid + 1, hi, A2BRange(s, lo, mid, st))

\* the loop's verdict: without a closing pad sequence the data characters
\* must fill whole groups of four
A2B(s) ==
    LET st == A2BRange(s, 1, Len(s),
                       [quad |-> 0, left |-> 0, pads |-> 0, out |-> <<>>, done |-> FALSE])
    IN  [ok |-> st.done \/ st.quad = 0, bytes |-> st.out]

\* base64.b64decode(s) of a str: [ok, bytes]; ok = FALSE is binascii.Error
b64decode(s) == A2B(s)

B64Char(v) == Ch(B64Alphabet, v + 1)

\* the four characters of the group of up to three bytes from bytes[i]
B2AGroup(bytes, i) ==
    LET n == Len(bytes) - i + 1
    IN  IF n = 1
        THEN B64Char(bytes[i] \div 4) \o B64Char((bytes[i] % 4) * 16) \o "=="
        ELSE IF n = 2
        THEN B64Char(bytes[i] \div 4)
             \o B64Char((bytes[i] % 4) * 16 + bytes[i + 1] \div 16)
             \o B64Char((bytes[i + 1] % 16) * 4) \o "="
        ELSE B64Char(bytes[i] \div 4)
             \o B64Char((bytes[i] % 4) * 16 + bytes[i + 1] \div 16)
             \o B64Char((bytes[i + 1] % 16) * 4 + bytes[i + 2] \div 64)
             \o B64Char(bytes[i + 2] % 64)

RECURSIVE B2A(_, _, _)
\* the groups lo..hi (group g starts at byte 3g - 2)
B2A(bytes, lo, hi) ==
    IF lo > hi THEN ""
    ELSE IF lo = hi THEN B2AGroup(bytes, 3 * lo - 2)
    ELSE LET mid == (lo + hi) \div 2
         IN  B2A(bytes, lo, mid) \o B2A(bytes, mid + 1, hi)

\* base64.b64encode(bytes).decode('ascii')
b64encode(bytes) == B2A(bytes, 1, (Len(bytes) + 2) \div 3)

(***************************************************************************)
(* JSON values, as Python holds them after json.loads:                     *)
(*   [t |-> "str", v |-> text]      a str                                  *)
(*   [t |-> "num", v |-> decimal]   an int, by its decimal text            *)
(*   [t |-> "lit", v |-> "true" | "false" | "null"]                        *)
(*   [t |-> "arr", v |-> <<value, ...>>]   a list                          *)
(*   [t |-> "obj", v |-> <<[k |-> key, val |-> value], ...>>]   a dict, in *)
(*                                  insertion order                        *)
(***************************************************************************)
Str(s) == [t |-> "str", v |-> s]

Num(s) == [t |-> "num", v |-> s]

None == [t |-> "lit", v |-> "null"]

Arr(items) == [t |-> "arr", v |-> items]

Obj(members) == [t |-> "obj", v |-> members]

EmptyDict == Obj(<<>>)

EmptyList == Arr(<<>>)

IsDict(d) == d.t = "obj"

IsStr(d) == d.t = "str"

\* the index of key k in dict d, or 0
KeyIndex(d, k) ==
    IF \E i \in 1..Len(d.v) : d.v[i].k = k
    THEN CHOOSE i \in 1..Len(d.v) : d.v[i].k = k
    ELSE 0

HasKey(d, k) == KeyIndex(d, k) # 0

\* dict.get(k, default)
Get(d, k, default) == IF HasKey(d, k) THEN d.v[KeyIndex(d, k)].val ELSE default

\* d[k] = val: a new key goes last, a known key keeps its place
SetKey(d, k, val) ==
    IF HasKey(d, k)
    THEN Obj([d.v EXCEPT ![KeyIndex(d, k)] = [k |-> k, val |-> val]])
    ELSE Obj(Append(d.v, [k |-> k, val |-> val]))

\* Python truth value
Truthy(d) ==
    IF d.t = "str" THEN d.v # ""
    ELSE IF d.t = "num" THEN d.v # "0"
    ELSE IF d.t = "lit" THEN d.v = "true"
    ELSE Len(d.v) > 0

\* whether len(d) is defined
IsSized(d) == d.t \in {"str", "arr", "obj"}

(***************************************************************************)
(* json.loads on the subset: objects, arrays, strings without escapes,     *)
(* integers, true / false / null.  A result is [ok, val, pos]: pos is the  *)
(* index after the value; ok = FALSE is json.JSONDecodeError.              *)
(***************************************************************************)
JsonWs == {" ", "\t", "\n", "\r"}

Digits == {"0", "1", "2", "3", "4", "5", "6", "7", "8", "9"}

RECURSIVE SkipWs(_, _)
SkipWs(s, i) == IF i <= Len(s) /\ Ch(s, i) \in JsonWs THEN SkipWs(s, i + 1) ELSE i

Fail(i) == [ok |-> FALSE, val |-> None, pos |-> i]

\* s[i] is the opening quote.  A backslash (an escape sequence) is outside
\* the modelled subset and a control character is invalid in a string.
ParseString(s, i) ==
    LET j == FindFrom(s, {"\"", "\\", "\n", "\r", "\t", "\f"}, i + 1)
    IN  IF j = 0 \/ Ch(s, j) # "\"" THEN Fail(i)
        ELSE [ok |-> TRUE, val |-> Str(SubSeq(s, i + 1, j - 1)), pos |-> j + 1]

RECURSIVE DigitsEnd(_, _)
DigitsEnd(s, i) == IF i <= Len(s) /\ Ch(s, i) \in Digits THEN DigitsEnd(s, i + 1) ELSE i

\* an integer: -? (0 | [1-9][0-9]*); a fraction or exponent is outside the subset
ParseNumber(s, i) ==
    LET d == IF Ch(s, i) = "-" THEN i + 1 ELSE i
        e == IF d <= Len(s) /\ Ch(s, d) = "0" THEN d + 1 ELSE DigitsEnd(s, d)
        text == SubSeq(s, i, e - 1)
    IN  IF e = d \/ (e <= Len(s) /\ Ch(s, e) \in {".", "e", "E"}) THEN Fail(i)
        ELSE [ok |-> TRUE, val |-> Num(IF text = "-0" THEN "0" ELSE text), pos |-> e]

ParseLiteral(s, i) ==
    IF StartsAt(s, i, "true") THEN [ok |-> TRUE, val |-> [t |-> "lit", v |-> "true"], pos |-> i + 4]
    ELSE IF StartsAt(s, i, "null") THEN [ok |-> TRUE, val |-> None, pos |-> i + 4]
    ELSE IF StartsAt(s, i, "false") THEN [ok |-> TRUE, val |-> [t |-> "lit", v |-> "false"], pos |-> i + 5]
    ELSE Fail(i)

RECURSIVE ParseValue(_, _)
RECURSIVE ParseElements(_, _, _)
RECURSIVE ParseMembers(_, _, _)

\* s[i] starts a value (whitespace already skipped)
ParseValue(s, i) ==
    IF i > Len(s) THEN Fail(i)
    ELSE LET c == Ch(s, i)
         IN  IF c = "\"" THEN ParseString(s, i)
             ELSE IF c = "{"
             THEN LET j == SkipWs(s, i + 1)
                  IN  IF j <= Len(s) /\ Ch(s, j) = "}"
                      THEN [ok |-> TRUE, val |-> EmptyDict, pos |-> j + 1]
                      ELSE ParseMembers(s, j, EmptyDict)
             ELSE IF c = "["
             THEN LET j == SkipWs(s, i + 1)
                  IN  IF j <= Len(s) /\ Ch(s, j) = "]"
                      THEN [ok |-> TRUE, val |-> EmptyList, pos |-> j + 1]
                      ELSE ParseElements(s, j, <<>>)
             ELSE IF c \in Digits \cup {"-"} THEN ParseNumber(s, i)
             ELSE ParseLiteral(s, i)

\* the elements of an array from s[i] on, acc holding those before
ParseElements(s, i, acc) ==
    LET r == ParseValue(s, i)
        j == SkipWs(s, r.pos)
    IN  IF ~r.ok \/ j > Len(s) THEN Fail(i)
        ELSE IF Ch(s, j) = "]" THEN [ok |-> TRUE, val |-> Arr(Append(acc, r.val)), pos |-> j + 1]
        ELSE IF Ch(s, j) = "," THEN ParseElements(s, SkipWs(s, j + 1), Append(acc, r.val))
        ELSE Fail(j)

\* the members of an object from s[i] on, acc the dict so far: a repeated
\* key takes the later value
ParseMembers(s, i, acc) ==
    IF i > Len(s) \/ Ch(s, i) # "\"" THEN Fail(i)
    ELSE LET k == ParseString(s, i)
             c == SkipWs(s, k.pos)
             r == ParseValue(s, SkipWs(s, c + 1))
             j == SkipWs(s, r.pos)
         IN  IF ~k.ok \/ c > Len(s) \/ Ch(s, c) # ":" THEN Fail(i)
             ELSE IF ~r.ok \/ j > Len(s) THEN Fail(i)
             ELSE IF Ch(s, j) = "}"
             THEN [ok |-> TRUE, val |-> SetKey(acc, k.val.v, r.val), pos |-> j + 1]
             ELSE IF Ch(s, j) = ","
             THEN ParseMembers(s, SkipWs(s, j + 1), SetKey(acc, k.val.v, r.val))
             ELSE Fail(j)

\* json.loads(s): [ok, val]
json_loads(s) ==
    LET r == ParseValue(s, SkipWs(s, 1))
    IN  IF r.ok /\ SkipWs(s, r.pos) = Len(s) + 1
        THEN [ok |-> TRUE, val |-> r.val]
        ELSE [ok |-> FALSE, val |-> None]

(***************************************************************************)
(* json.dump.  compact = TRUE is separators=(',', ':') on one line;        *)
(* compact = FALSE is indent=2 (items on their own lines, ': ' after a     *)
(* key).  A str of the subset needs no escaping.                           *)
(***************************************************************************)
RECURSIVE Spaces(_)
Spaces(n) == IF n <= 0 THEN "" ELSE " " \o Spaces(n - 1)

RECURSIVE Dump(_, _, _)
RECURSIVE DumpItems(_, _, _, _)
RECURSIVE DumpMembers(_, _, _, _)

\* level is the nesting depth of d
Dump(d, compact, level) ==
    IF d.t = "str" THEN "\"" \o d.v \o "\""
    ELSE IF d.t \in {"num", "lit"} THEN d.v
    ELSE IF d.t = "arr"
    THEN IF Len(d.v) = 0 THEN "[]"
         ELSE IF compact THEN "[" \o DumpItems(d.v, 1, compact, level) \o "]"
         ELSE "[\n" \o DumpItems(d.v, 1, compact, level + 1)
              \o "\n" \o Spaces(2 * level) \o "]"
    ELSE IF Len(d.v) = 0 THEN "{}"
         ELSE IF compact THEN "{" \o DumpMembers(d.v, 1, compact, level) \o "}"
         ELSE "{\n" \o DumpMembers(d.v, 1, compact, level + 1)
              \o "\n" \o Spaces(2 * level) \o "}"

DumpItems(items, i, compact, level) ==
    (IF compact THEN "" ELSE Spaces(2 * level))
    \o Dump(items[i], compact, level)
    \o (IF i = Len(items) THEN ""
        ELSE (IF compact THEN "," ELSE ",\n") \o DumpItems(items, i + 1, compact, level))

DumpMembers(members, i, compact, level) ==
    (IF compact THEN "" ELSE Spaces(2 * level))
    \o "\"" \o members[i].k \o "\"" \o (IF compact THEN ":" ELSE ": ")
    \o Dump(members[i].val, compact, level)
    \o (IF i = Len(members) THEN ""
        ELSE (IF compact THEN "," ELSE ",\n") \o DumpMembers(members, i + 1, compact, level))

\* json.dump(d, f, separators=(',', ':'))
json_dump_compact(d) == Dump(d, TRUE, 0)

\* json.dump(d, f, indent=2)
json_dump_indent(d) == Dump(d, FALSE, 0)

(***************************************************************************)
(* pathlib: a path is the name of a file in one directory.                 *)
(***************************************************************************)
\* PurePath.suffix: the last dot and what follows it, unless the dot is the
\* first or the last character of the name
suffix(name) ==
    LET i == RFind(name, ".", Len(name))
    IN  IF 1 < i /\ i < Len(name) THEN Drop(name, i - 1) ELSE ""

\* PurePath.with_suffix(suf) for a non-empty name and a suffix ".x"
with_suffix(name, suf) == Take(name, Len(name) - Len(suffix(name))) \o suf

(***************************************************************************)
(* The converter's constants                                               *)
(***************************************************************************)
SLSA_V1 == "https://slsa.dev/provenance/v1"

DEFAULT_PAYLOAD_TYPE == "application/vnd.in-toto+json"

BUNDLE_MEDIA_TYPE == "application/vnd.dev.sigstore.bundle.v0.3+json"

PEM_HEADER == "-----BEGIN CERTIFICATE-----"

PEM_FOOTER == "-----END CERTIFICATE-----"

\* the width of a line of the certificate's base64 text
PEM_WIDTH == 64

CRT_SUFFIX == ".crt"

PLAIN_SUFFIX == ".slsa.json"

BUNDLE_SUFFIX == ".bundle.json"

DEFAULT_SUFFIX == ".intoto.jsonl"

(***************************************************************************)
(* The formats extract_provenance_from_github_attestation writes           *)
(***************************************************************************)
Min(a, b) == IF a <= b THEN a ELSE b

RECURSIVE PemBody(_, _)
\* for i in range(0, len(cert_pem), 64): ... += cert_pem[i:i+64] + '\n'
PemBody(cert_pem, i) ==
    IF i > Len(cert_pem) THEN ""
    ELSE SubSeq(cert_pem, i, Min(i + PEM_WIDTH - 1, Len(cert_pem))) \o "\n"
         \o PemBody(cert_pem, i + PEM_WIDTH)

\* cert_pem_formatted, from the decoded certificate bytes
cert_pem_formatted(cert_bytes) ==
    PEM_HEADER \o "\n" \o PemBody(b64encode(cert_bytes), 1) \o PEM_FOOTER

\* the default taken with 'or': it replaces a payloadType that is present
\* but falsy
dsse_format_OrDefault(payload, envelope) ==
    Obj(<< [k |-> "payload", val |-> payload],
           [k |-> "payloadType",
            val |-> IF Truthy(Get(envelope, "payloadType", None))
                    THEN Get(envelope, "payloadType", None) ELSE Str(DEFAULT_PAYLOAD_TYPE)],
           [k |-> "signatures", val |-> Get(envelope, "signatures", EmptyList)] >>)

\* dsse_format
dsse_format(payload, envelope) ==
    Obj(<< [k |-> "payload", val |-> payload],
           [k |-> "payloadType", val |-> Get(envelope, "payloadType", Str(DEFAULT_PAYLOAD_TYPE))],
           [k |-> "signatures", val |-> Get(envelope, "signatures", EmptyList)] >>)

\* bundle_format
bundle_format(material, envelope) ==
    Obj(<< [k |-> "mediaType", val |-> Str(BUNDLE_MEDIA_TYPE)],
           [k |-> "verificationMaterial", val |-> material],
           [k |-> "dsseEnvelope", val |-> envelope] >>)

\* what the DSSE file receives: json.dump(..., separators=(',', ':')) and '\n'
dsse_text(payload, envelope) == json_dump_compact(dsse_format(payload, envelope)) \o "\n"

\* the predicate alone written in place of the statement
plain_text_PredicateOnly(stmt) == json_dump_indent(Get(stmt, "predicate", EmptyDict))

\* what the plain file receives: json.dump(statement, f, indent=2)
plain_text(stmt) == json_dump_indent(stmt)

\* what the bundle file receives
bundle_text(material, envelope) == json_dump_indent(bundle_format(material, envelope))

\* whether the summary (lines 104-119) raises: len() of a subject that has
\* no length, .get on a subject entry that is no dict, or .get along
\* predicate.runDetails.builder on a value that is no dict
SummaryRaises(stmt) ==
    LET subject == Get(stmt, "subject", EmptyList)
        predicate == Get(stmt, "predicate", EmptyDict)
        details == IF IsDict(predicate) THEN Get(predicate, "runDetails", EmptyDict) ELSE None
        builder == IF IsDict(details) THEN Get(details, "builder", EmptyDict) ELSE None
    IN  \/ ~IsSized(subject)
        \/ subject.t = "str" /\ subject.v # ""
        \/ subject.t = "obj" /\ Len(subject.v) > 0
        \/ subject.t = "arr" /\ \E n \in 1..Len(subject.v) : ~IsDict(subject.v[n])
        \/ ~IsDict(predicate)
        \/ ~IsDict(details)
        \/ ~IsDict(builder)

\* f.readline(): the text up to and with the first line end (universal
\* newlines: \n, \r or \r\n, read as \n)
readline(text) ==
    LET i == FindFrom(text, {"\n", "\r"}, 1)
    IN  IF i = 0 THEN text ELSE Take(text, i - 1) \o "\n"

\* the byte 0xFF in a file's data: no UTF-8 text holds it
BYTE_FF == "ÿ"

\* f.readline() raises UnicodeDecodeError: the file is opened in text mode
\* (the locale's encoding, UTF-8), and readline decodes the file a chunk of
\* 8192 bytes at a time, strictly, so a byte that does not decode raises
\* wherever in the chunk it stands.  The files here are shorter than one
\* chunk.
readline_raises(data) == FindFrom(data, {BYTE_FF}, 1) # 0

(***************************************************************************)
(* argparse, for the parser main builds: one positional attestation_file   *)
(* and the option -o / --output with one argument; -h / --help is          *)
(* argparse's own.  status "help" is its exit 0, "error" its exit 2.       *)
(***************************************************************************)
RECURSIVE ParseArgv(_, _, _, _)
\* argv from index i on; pos holds the positionals so far, out the -o value
ParseArgv(argv, i, pos, out) ==
    IF i > Len(argv)
    THEN IF Len(pos) = 1
         THEN [status |-> "ok", attestation_file |-> pos[1], output |-> out]
         ELSE [status |-> "error", attestation_file |-> "", output |-> ""]
    ELSE IF argv[i] \in {"-h", "--help"}
    THEN [status |-> "help", attestation_file |-> "", output |-> ""]
    ELSE IF argv[i] \in {"-o", "--output"}
    THEN IF i = Len(argv) \/ Ch(argv[i + 1], 1) = "-"
         THEN [status |-> "error", attestation_file |-> "", output |-> ""]
         ELSE ParseArgv(argv, i + 2, pos, argv[i + 1])
    ELSE IF Ch(argv[i], 1) = "-"
    THEN [status |-> "error", attestation_file |-> "", output |-> ""]
    ELSE ParseArgv(argv, i + 1, Append(pos, argv[i]), out)

parse_args(argv) == ParseArgv(argv, 1, <<>>, "")

(***************************************************************************)
(* The inputs the model runs the converter on                              *)
(***************************************************************************)
\* the largest certificate, in bytes (96 bytes fill two lines of 64)
MaxCertLen == 97

\* how many times in a row the converter is run on the same command line
MaxRuns == 2

\* certificate bytes of length n
CertBytes(n) == [i \in 1..n |-> (i * 73 + 5) % 256]

\* the statement of the spec's example
StmtExample ==
    "{\"predicateType\":\"https://slsa.dev/provenance/v1\",\"subject\":[{\"name\":\"a\"}],\"predicate\":{}}"

Statements ==
    << StmtExample,
       \* as json.dump(indent=2) would write it
       "{\n  \"predicateType\": \"https://slsa.dev/provenance/v1\"\n}",
       \* a repeated key, the later value being the right one
       "{\"predicateType\":\"x\", \"predicateType\":\"https://slsa.dev/provenance/v1\"}",
       \* a builder id and two subjects
       "{\"subject\":[{\"name\":\"a\"},{}],\"predicateType\":\"https://slsa.dev/provenance/v1\",\"predicate\":{\"runDetails\":{\"builder\":{\"id\":\"b\"}}}}",
       \* the summary raises: len(5), None.get
       "{\"predicateType\":\"https://slsa.dev/provenance/v1\",\"subject\":5}",
       "{\"predicateType\":\"https://slsa.dev/provenance/v1\",\"predicate\":null}",
       \* rejected
       "{\"predicateType\":\"https://slsa.dev/provenance/v0.2\"}",
       "{}",
       "[]",
       "not json" >>

Sig(text) == Obj(<<[k |-> "sig", val |-> Str(text)]>>)

\* a dsseEnvelope: payload is a JSON value, type and sigs are sequences of
\* zero or one value (zero: the key is missing)
Envelope(payload, type, sigs) ==
    Obj(<<[k |-> "payload", val |-> payload]>>
        \o [n \in 1..Len(type) |-> [k |-> "payloadType", val |-> type[n]]]
        \o [n \in 1..Len(sigs) |-> [k |-> "signatures", val |-> sigs[n]]])

Material(rawBytes) ==
    Obj(<<[k |-> "certificate", val |-> Obj(<<[k |-> "rawBytes", val |-> rawBytes]>>)]>>)

\* an attestation record: env and material are sequences of zero or one value
Record(env, material) ==
    json_dump_compact(
        Obj([n \in 1..Len(material) |-> [k |-> "verificationMaterial", val |-> material[n]]]
            \o [n \in 1..Len(env) |-> [k |-> "dsseEnvelope", val |-> env[n]]]))

Payload(text) == Str(b64encode(encode(text)))

OneSig == <<Arr(<<Sig("MEQ")>>)>>

GoodEnvelope == Envelope(Payload(StmtExample), <<Str("x")>>, OneSig)

GoodMaterial == Material(Str(b64encode(CertBytes(48))))

\* the first lines of the attestation files
Records ==
    \* every statement, with a certificate
    [n \in 1..Len(Statements) |->
        Record(<<Envelope(Payload(Statements[n]), <<Str("x")>>, OneSig)>>, <<GoodMaterial>>)]
    \o
    \* the envelope's optional keys
    << Record(<<Envelope(Payload(StmtExample), <<>>, OneSig)>>, <<GoodMaterial>>),
       Record(<<Envelope(Payload(StmtExample), <<None>>, <<>>)>>, <<GoodMaterial>>),
       Record(<<Envelope(Payload(StmtExample), <<Str("x")>>,
                         <<Arr(<<Sig("MEQ"), Sig("MEU"), Sig("")>>)>>)>>, <<GoodMaterial>>),
       \* the spec's example: no certificate
       Record(<<Envelope(Payload(StmtExample), <<Str("x")>>, <<EmptyList>>)>>, <<EmptyDict>>),
       Record(<<GoodEnvelope>>, <<>>),
       Record(<<GoodEnvelope>>, <<Material(Str(""))>>),
       Record(<<GoodEnvelope>>, <<Obj(<<[k |-> "certificate", val |-> EmptyDict]>>)>>),
       \* certificates of other lengths, and base64 text that is not canonical
       Record(<<GoodEnvelope>>, <<Material(Str(b64encode(CertBytes(1))))>>),
       Record(<<GoodEnvelope>>, <<Material(Str(b64encode(CertBytes(49))))>>),
       Record(<<GoodEnvelope>>, <<Material(Str(b64encode(CertBytes(MaxCertLen))))>>),
       Record(<<GoodEnvelope>>, <<Material(Str("QR=="))>>),
       Record(<<GoodEnvelope>>, <<Material(Str("QU JD!"))>>),
       Record(<<GoodEnvelope>>, <<Material(Str("===="))>>),
       \* certificate material that raises
       Record(<<GoodEnvelope>>, <<Material(Str("QUJDR"))>>),
       Record(<<GoodEnvelope>>, <<Material(Num("5"))>>),
       Record(<<GoodEnvelope>>, <<None>>),
       Record(<<GoodEnvelope>>, <<Obj(<<[k |-> "certificate", val |-> Str("x")]>>)>>),
       \* payloads: base64 with a character outside the alphabet, bad padding,
       \* bytes that are not UTF-8, empty, missing, not a str
       Record(<<Envelope(Str("e30 !"), <<Str("x")>>, OneSig)>>, <<GoodMaterial>>),
       Record(<<Envelope(Str("eyJ"), <<Str("x")>>, OneSig)>>, <<GoodMaterial>>),
       Record(<<Envelope(Str(b64encode(<<255, 123, 125>>)), <<Str("x")>>, OneSig)>>, <<GoodMaterial>>),
       Record(<<Envelope(Str(""), <<Str("x")>>, OneSig)>>, <<GoodMaterial>>),
       Record(<<Obj(<<[k |-> "payloadType", val |-> Str("x")]>>)>>, <<GoodMaterial>>),
       Record(<<Envelope(Num("7"), <<Str("x")>>, OneSig)>>, <<GoodMaterial>>),
       \* envelopes: missing, empty, null, not a dict
       Record(<<>>, <<GoodMaterial>>),
       Record(<<EmptyDict>>, <<GoodMaterial>>),
       Record(<<None>>, <<GoodMaterial>>),
       Record(<<Str("x")>>, <<GoodMaterial>>),
       \* first lines that are no JSON object
       "[]",
       "oops",
       "" >>

\* what follows the first line
Tails == <<"", "\n", "\r\n" \o Record(<<>>, <<>>) \o "\n", "\n" \o BYTE_FF \o "\n">>

\* the first line of a file, its "\n" included when it has one
FirstLine(text) ==
    LET i == FindFrom(text, {"\n"}, 1)
    IN  IF i = 0 THEN text ELSE Take(text, i)

\* the later lines a second file can hold in place of the first file's
LaterLines == {"", "{}\n", BYTE_FF \o "\n"}

\* attestation files: every record alone, and some records with a tail or
\* with white space around them
InputTexts ==
    {Records[n] : n \in 1..Len(Records)}
    \cup {Records[n] \o Tails[m] : n \in {1, 7, 14, Len(Records) - 1}, m \in 1..Len(Tails)}
    \cup {"  " \o Records[1] \o " \n", "\n" \o Records[1]}

\* command lines (sys.argv[1:])
Argvs ==
    { <<"att.jsonl">>,
      <<"att.jsonl", "-o", "out">>,
      <<"att.jsonl", "--output", "out.crt">>,
      <<"-o", "att.jsonl", "att.jsonl">>,
      <<"att.bundle.json", "-o", "att.jsonl">>,
      <<"gone.jsonl">>,
      <<"gone.jsonl", "-o", "out">>,
      <<>>,
      <<"att.jsonl", "-o">>,
      <<"att.jsonl", "extra.jsonl">>,
      <<"--verbose", "att.jsonl">>,
      <<"-h">>,
      <<"att.jsonl", "--help">> }

\* the attestation files that exist
InputNames == {"att.jsonl", "att.bundle.json"}

OutputNames == {"out", "out.crt", "att.jsonl", "att.intoto.jsonl"}

Suffixes == {CRT_SUFFIX, PLAIN_SUFFIX, BUNDLE_SUFFIX}

\* every file name a run can touch
Names ==
    InputNames \cup {"gone.jsonl"} \cup OutputNames
    \cup {with_suffix(n, suf) : n \in OutputNames, suf \in Suffixes}

NoFile == [ex |-> FALSE, data |-> ""]

File(text) == [ex |-> TRUE, data |-> text]

\* the sets of names that cannot be opened for writing
Unwritables ==
    {{}} \cup {{with_suffix(n, suf) : n \in OutputNames} : suf \in Suffixes} \cup {OutputNames}

(***************************************************************************)
(* State                                                                   *)
(***************************************************************************)
VARIABLES
    argv,                   \* the command line
    fs,                     \* the files: name -> [ex, data]
    unwritable,             \* the names open(name, 'w') raises on
    pc,                     \* where the run stands
    args,                   \* main: the parsed arguments
    output_file,            \* main: the output path
    attestation_data,       \* extract: the parsed first line
    dsse_envelope,
    payload_b64,
    statement,
    verification_material,
    cert_raw_bytes,
    written,                \* the writes of this run so far: <<[kind, name], ...>>
    error,                  \* the exception the except clause caught, or ""
    success,                \* extract's return value: "True", "False" or "" (none yet)
    exit_code,              \* the process's exit code, or -1 while it runs
    run,                    \* 1 for the first run, 2 for the second, ...
    start,                  \* the files as the current run found them
    prev,                   \* the previous run: its files at the start and at the end, and its results
    zfiles,                 \* zobra: the files, name -> [ex, data]
    zdirs,                  \* zobra: the directories
    zlast,                  \* zobra: the last call and its outcome
    zdumped,                \* zobra: name -> the content last handed to a dump_file that returned
    zcalls                  \* zobra: the number of calls so far

cvars ==
    << argv, fs, unwritable, pc, args, output_file, attestation_data, dsse_envelope,
       payload_b64, statement, verification_material, cert_raw_bytes, written, error,
       success, exit_code, run, start, prev >>

zvars == << zfiles, zdirs, zlast, zdumped, zcalls >>

vars == << cvars, zvars >>

locals ==
    << attestation_data, dsse_envelope, payload_b64, statement, verification_material,
       cert_raw_bytes >>

env == << argv, unwritable, run, start, prev, zvars >>

NoArgs == [status |-> "", attestation_file |-> "", output |-> ""]

\* stale output files of an earlier conversion
Stale == [n \in Names |-> IF n \in InputNames \/ n = "gone.jsonl" THEN NoFile ELSE File("stale\n")]

\* the command lines, attestation files and environments the runs start from
Scenarios ==
    {<<a, t, u, p>> : a \in Argvs, t \in {Records[1], Records[14], Records[7]},
                      u \in Unwritables, p \in BOOLEAN}
    \cup {<<a, t, {}, FALSE>> : a \in {<<"att.jsonl">>, <<"att.jsonl", "--output", "out.crt">>},
                                t \in InputTexts}

\* the converter before a run on scenario sc
ConverterInit(sc) ==
    /\ argv = sc[1]
    /\ fs = [n \in Names |->
                IF n \in InputNames THEN File(sc[2])
                ELSE IF sc[4] THEN Stale[n] ELSE NoFile]
    /\ unwritable = sc[3]
    /\ pc = "parse_args"
    /\ args = NoArgs
    /\ output_file = ""
    /\ attestation_data = None
    /\ dsse_envelope = None
    /\ payload_b64 = None
    /\ statement = None
    /\ verification_material = None
    /\ cert_raw_bytes = None
    /\ written = <<>>
    /\ error = ""
    /\ success = ""
    /\ exit_code = -1
    /\ run = 1
    /\ start = fs
    /\ prev = [start |-> fs, end |-> fs, success |-> "", exit_code |-> -1,
               written |-> <<>>, other |-> FALSE]

(***************************************************************************)
(* zobra/core.py, on a POSIX system (os.linesep is "\n")                   *)
(***************************************************************************)
\* the most calls of dump_file and read_file in a row
MaxCalls == 3

ZOBRA_VERSION == "0.1.0"

\* the paths the calls name; "f.txt/x" lies under "f.txt"
ZPaths == {"f.txt", "d/n/f.txt", "f.txt/x"}

\* the text contents handed to dump_file
ZContents == {"", "Hello, SLSA world!", "a\nb\n", "a\r\nb", "x\ry"}

\* what datetime.datetime.now().isoformat() can return
Timestamps == {"2026-01-01T00:00:00", "2026-01-01T00:00:01"}

\* Path.parent: the path up to its last "/", or "." for a bare name
parent(path) ==
    LET i == RFind(path, "/", Len(path))
    IN  IF i = 0 THEN "." ELSE Take(path, i - 1)

\* Path.name
path_name(path) == Drop(path, RFind(path, "/", Len(path)))

RECURSIVE Ancestors(_)
\* the directories above path, "." left out
Ancestors(path) ==
    IF parent(path) = "." THEN {} ELSE {parent(path)} \cup Ancestors(parent(path))

\* _generate_default_content(filename), with the clock's answer
generate_default_content(filename, timestamp) ==
    "# File created by zobra package\n"
    \o "# Filename: " \o filename \o "\n"
    \o "# Created: " \o timestamp \o "\n"
    \o "# Package: zobra v" \o ZOBRA_VERSION \o "\n"
    \o "# Purpose: SLSA provenance demonstration\n"
    \o "\n"
    \o "This file was created by the zobra Python package as part of a \n"
    \o "Supply-chain Levels for Software Artifacts (SLSA) demonstration.\n"
    \o "\n"
    \o "Zobra is a simple package designed to showcase:\n"
    \o "- Package creation and distribution\n"
    \o "- SLSA provenance generation\n"
    \o "- Provenance verification workflows\n"
    \o "\n"
    \o "For more information about SLSA, visit: https://slsa.dev/\n"
    \o "\n"
    \o "Generated at: " \o timestamp \o "\n"

RECURSIVE UniversalNewlines(_, _, _)
\* what a text-mode read (newline=None) returns for data[lo..hi]: "\r\n"
\* and a lone "\r" are read as "\n"
UniversalNewlines(data, lo, hi) ==
    IF lo > hi THEN ""
    ELSE IF lo = hi
    THEN IF Ch(data, lo) = "\r" THEN "\n"
         ELSE IF Ch(data, lo) = "\n" /\ lo > 1 /\ Ch(data, lo - 1) = "\r" THEN ""
         ELSE Ch(data, lo)
    ELSE LET mid == (lo + hi) \div 2
         IN  UniversalNewlines(data, lo, mid) \o UniversalNewlines(data, mid + 1, hi)

\* f.read() of a file opened with open(filepath, 'r', encoding='utf-8')
read_text(data) == UniversalNewlines(data, 1, Len(data))

\* what f.write(content) stores in a file opened with open(filepath, 'w',
\* encoding='utf-8'): "\n" is written as os.linesep, which is "\n"
write_text(content) == content

NoCall == [op |-> "", path |-> "", raised |-> "", value |-> ""]

NotDumped == [ex |-> FALSE, data |-> ""]

ZobraInit ==
    /\ zfiles = [p \in ZPaths |-> NoFile]
    /\ zdirs = {"."}
    /\ zlast = NoCall
    /\ zdumped = [p \in ZPaths |-> NotDumped]
    /\ zcalls = 0

\* dump_file(path, content); given = FALSE is content=None, and timestamp
\* is then the clock's answer
dump_file(path, given, content, timestamp) ==
    LET text == IF given THEN content ELSE generate_default_content(path_name(path), timestamp)
    IN  /\ zcalls < MaxCalls
        /\ zcalls' = zcalls + 1
        /\ IF \/ \E d \in Ancestors(path) : d \in ZPaths /\ zfiles[d].ex
              \/ path \in zdirs
           THEN \* mkdir meets a file (FileExistsError), or open a directory
                \* (IsADirectoryError): both are OSError
                /\ zlast' = [op |-> "dump_file", path |-> path,
                             raised |-> "OSError", value |-> ""]
                /\ UNCHANGED << zfiles, zdirs, zdumped >>
           ELSE /\ zdirs' = zdirs \cup Ancestors(path)
                /\ zfiles' = [zfiles EXCEPT ![path] = File(write_text(text))]
                /\ zdumped' = [zdumped EXCEPT ![path] = File(text)]
                /\ zlast' = [op |-> "dump_file", path |-> path, raised |-> "", value |-> ""]

DumpFile ==
    /\ \E path \in ZPaths, content \in ZContents : dump_file(path, TRUE, content, "")
    /\ UNCHANGED cvars

DumpFileDefault ==
    /\ \E path \in ZPaths, timestamp \in Timestamps : dump_file(path, FALSE, "", timestamp)
    /\ UNCHANGED cvars

\* read_file(path)
read_file(path) ==
    /\ zcalls < MaxCalls
    /\ zcalls' = zcalls + 1
    /\ zlast' =
          IF \/ path \in zdirs
             \/ \E d \in Ancestors(path) : d \in ZPaths /\ zfiles[d].ex
          THEN \* open meets a directory (IsADirectoryError) or a file where a
               \* directory should be (NotADirectoryError): both are OSError
               [op |-> "read_file", path |-> path, raised |-> "OSError", value |-> ""]
          ELSE IF ~zfiles[path].ex
          THEN [op |-> "read_file", path |-> path, raised |-> "FileNotFoundError", value |-> ""]
          ELSE [op |-> "read_file", path |-> path, raised |-> "",
                value |-> read_text(zfiles[path].data)]
    /\ UNCHANGED << zfiles, zdirs, zdumped >>

ReadFile ==
    /\ \E path \in ZPaths : read_file(path)
    /\ UNCHANGED cvars

ZobraNext ==
    \/ DumpFile
    \/ DumpFileDefault
    \/ ReadFile

\* the calls of zobra, the converter at rest
InitZobra ==
    /\ ConverterInit(<<<<>>, "", {}, FALSE>>)
    /\ ZobraInit

SpecZobra == InitZobra /\ [][ZobraNext]_vars

Init ==
    /\ \E sc \in Scenarios : ConverterInit(sc)
    /\ ZobraInit

(***************************************************************************)
(* main                                                                    *)
(***************************************************************************)
\* sys.exit(code)
Exit(code) ==
    /\ exit_code' = code
    /\ pc' = "exited"

\* line 143: args = parser.parse_args()
ParseArgs ==
    /\ pc = "parse_args"
    /\ LET a == parse_args(argv)
       IN  /\ args' = a
           /\ IF a.status = "error" THEN Exit(2)
              ELSE IF a.status = "help" THEN Exit(0)
              ELSE pc' = "exists" /\ UNCHANGED exit_code
    /\ UNCHANGED << fs, output_file, locals, written, error, success, env >>

\* lines 145-153: the attestation file must exist; the output path
CheckInput ==
    /\ pc = "exists"
    /\ IF ~fs[args.attestation_file].ex
       THEN Exit(1) /\ UNCHANGED output_file
       ELSE /\ output_file' = IF args.output # "" THEN args.output
                              ELSE with_suffix(args.attestation_file, DEFAULT_SUFFIX)
            /\ pc' = "read"
            /\ UNCHANGED exit_code
    /\ UNCHANGED << fs, args, locals, written, error, success, env >>

\* sys.exit(0) on both branches
ExitCodeFor_AlwaysZero(ok) == 0

\* lines 159-168: if success: sys.exit(0) else: sys.exit(1)
ExitCodeFor(ok) == IF ok = "True" THEN 0 ELSE 1

\* lines 157-168: the exit code from extract's return value
MainExit ==
    /\ pc = "returned"
    /\ Exit(ExitCodeFor(success))
    /\ UNCHANGED << fs, args, output_file, locals, written, error, success, env >>

(***************************************************************************)
(* extract_provenance_from_github_attestation                              *)
(***************************************************************************)
\* an exception raised inside the try block: control goes to the except clause
Raise(e) ==
    /\ error' = e
    /\ pc' = "except"

\* lines 25-27
ReadInput ==
    /\ pc = "read"
    /\ LET data == fs[args.attestation_file].data
           r == json_loads(strip(readline(data)))
       IN  IF readline_raises(data) THEN Raise("UnicodeDecodeError") /\ UNCHANGED attestation_data
           ELSE IF ~r.ok THEN Raise("JSONDecodeError") /\ UNCHANGED attestation_data
           ELSE attestation_data' = r.val /\ pc' = "envelope" /\ UNCHANGED error
    /\ UNCHANGED << fs, args, output_file, dsse_envelope, payload_b64, statement,
                    verification_material, cert_raw_bytes, written, success, exit_code, env >>

\* lines 30-33
GetEnvelope ==
    /\ pc = "envelope"
    /\ IF ~IsDict(attestation_data)
       THEN Raise("AttributeError") /\ UNCHANGED dsse_envelope
       ELSE LET e == Get(attestation_data, "dsseEnvelope", EmptyDict)
            IN  /\ dsse_envelope' = e
                /\ IF ~Truthy(e) THEN Raise("ValueError: No DSSE envelope found in attestation")
                   ELSE pc' = "payload" /\ UNCHANGED error
    /\ UNCHANGED << fs, args, output_file, attestation_data, payload_b64, statement,
                    verification_material, cert_raw_bytes, written, success, exit_code, env >>

\* lines 36-38
GetPayload ==
    /\ pc = "payload"
    /\ IF ~IsDict(dsse_envelope)
       THEN Raise("AttributeError") /\ UNCHANGED payload_b64
       ELSE LET b == Get(dsse_envelope, "payload", Str(""))
            IN  /\ payload_b64' = b
                /\ IF ~Truthy(b) THEN Raise("ValueError: No payload found in DSSE envelope")
                   ELSE pc' = "decode" /\ UNCHANGED error
    /\ UNCHANGED << fs, args, output_file, attestation_data, dsse_envelope, statement,
                    verification_material, cert_raw_bytes, written, success, exit_code, env >>

\* lines 41-42: [error, val]: the exception decoding the payload raises
\* ("" for none) and the statement
DecodePayload(payload) ==
    IF ~IsStr(payload) THEN [error |-> "TypeError", val |-> None]
    ELSE LET b == b64decode(payload.v)
             u == decode_utf8(b.bytes)
             j == json_loads(u.text)
         IN  IF ~b.ok THEN [error |-> "binascii.Error", val |-> None]
             ELSE IF ~u.ok THEN [error |-> "UnicodeDecodeError", val |-> None]
             ELSE IF ~j.ok THEN [error |-> "JSONDecodeError", val |-> None]
             ELSE [error |-> "", val |-> j.val]

\* lines 41-42
Decode ==
    /\ pc = "decode"
    /\ LET d == DecodePayload(payload_b64)
       IN  IF d.error # "" THEN Raise(d.error) /\ UNCHANGED statement
           ELSE statement' = d.val /\ pc' = "predicate" /\ UNCHANGED error
    /\ UNCHANGED << fs, args, output_file, attestation_data, dsse_envelope, payload_b64,
                    verification_material, cert_raw_bytes, written, success, exit_code, env >>

\* the check of line 45 left out
IsSlsaProvenance_Unchecked(stmt) == TRUE

\* line 45: the statement is a SLSA v1 provenance statement
IsSlsaProvenance(stmt) == Get(stmt, "predicateType", None) = Str(SLSA_V1)

\* lines 45-46
CheckPredicate ==
    /\ pc = "predicate"
    /\ IF ~IsDict(statement) THEN Raise("AttributeError")
       ELSE IF ~IsSlsaProvenance(statement)
       THEN Raise("ValueError: Not a SLSA provenance statement")
       ELSE pc' = "material" /\ UNCHANGED error
    /\ UNCHANGED << fs, args, output_file, locals, written, success, exit_code, env >>

\* 'if cert_raw_bytes is not None' in place of line 53's truth test
HasCertificate_NotNone(raw) == raw # None

\* line 53: if cert_raw_bytes
HasCertificate(raw) == Truthy(raw)

\* lines 49-53
GetMaterial ==
    /\ pc = "material"
    /\ LET m == Get(attestation_data, "verificationMaterial", EmptyDict)
           c == IF IsDict(m) THEN Get(m, "certificate", EmptyDict) ELSE None
           raw == IF IsDict(c) THEN Get(c, "rawBytes", Str("")) ELSE None
       IN  /\ verification_material' = m
           /\ IF ~IsDict(m) \/ ~IsDict(c)
              THEN Raise("AttributeError") /\ UNCHANGED cert_raw_bytes
              ELSE /\ cert_raw_bytes' = raw
                   /\ pc' = IF HasCertificate(raw) THEN "write_cert" ELSE "write_dsse"
                   /\ UNCHANGED error
    /\ UNCHANGED << fs, args, output_file, attestation_data, dsse_envelope, payload_b64,
                    statement, written, success, exit_code, env >>

\* the file opened with mode 'a' in place of 'w'
WriteFile_Append(files, name, text) == [files EXCEPT ![name] = File(@.data \o text)]

\* the files after: with open(name, 'w') as f: f.write(text)
WriteFile(files, name, text) == [files EXCEPT ![name] = File(text)]

\* the step after a write of the given kind
NextAfter(kind) ==
    IF kind = "cert" THEN "write_dsse"
    ELSE IF kind = "dsse" THEN "write_plain"
    ELSE IF kind = "plain" THEN "write_bundle"
    ELSE "summary"

\* a failed write swallowed: the run goes on with the next output
AfterFailedWrite_GoOn(kind) == NextAfter(kind)

\* a write raised: the except clause is next
AfterFailedWrite(kind) == "except"

\* with open(name, 'w') as f: ... inside the try block
Write(kind, name, text) ==
    IF name \in unwritable
    THEN /\ error' = "PermissionError"
         /\ pc' = AfterFailedWrite(kind)
         /\ UNCHANGED << fs, written >>
    ELSE /\ fs' = WriteFile(fs, name, text)
         /\ written' = Append(written, [kind |-> kind, name |-> name])
         /\ pc' = NextAfter(kind)
         /\ UNCHANGED error

\* lines 53-69
WriteCert ==
    /\ pc = "write_cert"
    /\ IF ~IsStr(cert_raw_bytes) THEN Raise("TypeError") /\ UNCHANGED << fs, written >>
       ELSE LET b == b64decode(cert_raw_bytes.v)
            IN  IF ~b.ok THEN Raise("binascii.Error") /\ UNCHANGED << fs, written >>
                ELSE Write("cert", with_suffix(output_file, CRT_SUFFIX), cert_pem_formatted(b.bytes))
    /\ UNCHANGED << args, output_file, locals, success, exit_code, env >>

\* lines 74-78, 91-93
WriteDsse ==
    /\ pc = "write_dsse"
    /\ Write("dsse", output_file, dsse_text(payload_b64, dsse_envelope))
    /\ UNCHANGED << args, output_file, locals, success, exit_code, env >>

\* lines 81, 96-98
WritePlain ==
    /\ pc = "write_plain"
    /\ Write("plain", with_suffix(output_file, PLAIN_SUFFIX), plain_text(statement))
    /\ UNCHANGED << args, output_file, locals, success, exit_code, env >>

\* lines 84-88, 100-102
WriteBundle ==
    /\ pc = "write_bundle"
    /\ Write("bundle", with_suffix(output_file, BUNDLE_SUFFIX),
             bundle_text(verification_material, dsse_envelope))
    /\ UNCHANGED << args, output_file, locals, success, exit_code, env >>

\* lines 104-121: the summary, then return True
Summary ==
    /\ pc = "summary"
    /\ IF SummaryRaises(statement)
       THEN Raise("TypeError or AttributeError") /\ UNCHANGED success
       ELSE success' = "True" /\ pc' = "returned" /\ UNCHANGED error
    /\ UNCHANGED << fs, args, output_file, locals, written, exit_code, env >>

\* lines 123-125: except Exception: ... return False
Except ==
    /\ pc = "except"
    /\ success' = "False"
    /\ pc' = "returned"
    /\ UNCHANGED << fs, args, output_file, locals, written, error, exit_code, env >>

\* the same command line is run again, on the files the last run left
Rerun ==
    /\ pc = "exited"
    /\ run < MaxRuns
    /\ prev' = [start |-> start, end |-> fs, success |-> success, exit_code |-> exit_code,
                 written |-> written, other |-> FALSE]
    /\ start' = fs
    /\ run' = run + 1
    /\ pc' = "parse_args"
    /\ args' = NoArgs
    /\ output_file' = ""
    /\ attestation_data' = None
    /\ dsse_envelope' = None
    /\ payload_b64' = None
    /\ statement' = None
    /\ verification_material' = None
    /\ cert_raw_bytes' = None
    /\ written' = <<>>
    /\ error' = ""
    /\ success' = ""
    /\ exit_code' = -1
    /\ UNCHANGED << argv, fs, unwritable, zvars >>

\* the same command line run on another attestation file, one that has the
\* first line of the first and other later lines, with every other file as
\* the first run found it
RerunOnOtherFile ==
    /\ pc = "exited"
    /\ run < MaxRuns
    /\ args.status = "ok"
    /\ start[args.attestation_file].ex
    /\ LET text == start[args.attestation_file].data
           line == FirstLine(text)
       IN  /\ EndsWith(line, "\n")
           /\ \E later \in LaterLines :
                 /\ line \o later # text
                 /\ fs' = [start EXCEPT ![args.attestation_file] = File(line \o later)]
    /\ prev' = [start |-> start, end |-> fs, success |-> success, exit_code |-> exit_code,
                 written |-> written, other |-> TRUE]
    /\ start' = fs'
    /\ run' = run + 1
    /\ pc' = "parse_args"
    /\ args' = NoArgs
    /\ output_file' = ""
    /\ attestation_data' = None
    /\ dsse_envelope' = None
    /\ payload_b64' = None
    /\ statement' = None
    /\ verification_material' = None
    /\ cert_raw_bytes' = None
    /\ written' = <<>>
    /\ error' = ""
    /\ success' = ""
    /\ exit_code' = -1
    /\ UNCHANGED << argv, unwritable, zvars >>

Next ==
    \/ ParseArgs
    \/ CheckInput
    \/ ReadInput
    \/ GetEnvelope
    \/ GetPayload
    \/ Decode
    \/ CheckPredicate
    \/ GetMaterial
    \/ WriteCert
    \/ WriteDsse
    \/ WritePlain
    \/ WriteBundle
    \/ Summary
    \/ Except
    \/ MainExit
    \/ Rerun
    \/ RerunOnOtherFile

Spec == Init /\ [][Next]_vars

(***************************************************************************)
(* What the claims speak of                                                *)
(***************************************************************************)
\* What an attestation file holds: the first record, its dsseEnvelope and
\* payload (None where there is none to read), the text and the statement
\* the payload encodes, verificationMaterial.certificate.rawBytes (None
\* where there is no such value), and
\*   valid: the payload is a non-empty str that encodes a SLSA v1 statement
Analyse(file_text) ==
    LET rec == json_loads(strip(readline(file_text)))
        top == IF rec.ok /\ IsDict(rec.val) THEN rec.val ELSE EmptyDict
        envelope == Get(top, "dsseEnvelope", None)
        payload == IF IsDict(envelope) THEN Get(envelope, "payload", None) ELSE None
        bytes == IF IsStr(payload) THEN b64decode(payload.v) ELSE [ok |-> FALSE, bytes |-> <<>>]
        text == IF bytes.ok THEN decode_utf8(bytes.bytes) ELSE [ok |-> FALSE, text |-> ""]
        stmt == IF text.ok THEN json_loads(text.text) ELSE [ok |-> FALSE, val |-> None]
        material == Get(top, "verificationMaterial", None)
        certificate == IF IsDict(material) THEN Get(material, "certificate", None) ELSE None
        raw == IF IsDict(certificate) THEN Get(certificate, "rawBytes", None) ELSE None
    IN  [ record |-> rec,
          envelope |-> envelope,
          payload |-> payload,
          text |-> text,
          statement |-> stmt,
          valid |-> /\ IsStr(payload)
                    /\ payload.v # ""
                    /\ stmt.ok
                    /\ IsDict(stmt.val)
                    /\ Get(stmt.val, "predicateType", None) = Str(SLSA_V1),
          rawBytes |-> raw,
          \* rawBytes is present and not empty
          hasRawBytes |-> raw # None /\ raw # Str("") ]

\* the attestation file as the current run found it
Input == Analyse(start[args.attestation_file].data)

CertFile == with_suffix(output_file, CRT_SUFFIX)

PlainFile == with_suffix(output_file, PLAIN_SUFFIX)

BundleFile == with_suffix(output_file, BUNDLE_SUFFIX)

\* the kinds of the writes of this run, in order
Kinds == [n \in 1..Len(written) |-> written[n].kind]

\* the names this run wrote
WrittenNames == {written[n].name : n \in 1..Len(written)}

\* extract has returned
Returned == pc = "returned"

(***************************************************************************)
(* C1: when the record is rejected during validation (no or empty          *)
(* dsseEnvelope, no or empty payload, a payload that does not decode as    *)
(* base64 / UTF-8 / JSON, a predicateType other than SLSA v1), extract     *)
(* returns failure and, as it returns, this run has written no file: the   *)
(* files are those the run found.                                          *)
(***************************************************************************)
C1_RejectedWritesNothing ==
    (Returned /\ ~Input.valid) =>
        /\ success = "False"
        /\ written = <<>>
        /\ fs = start

\* a record with a well-formed payload was rejected for its predicateType,
\* in a directory that held no output file
C1_Witness ==
    /\ Returned
    /\ error = "ValueError: Not a SLSA provenance statement"
    /\ LET stmt == Input.statement
       IN  /\ stmt.ok
           /\ Get(stmt.val, "predicateType", None) = Str("https://slsa.dev/provenance/v0.2")
    /\ success = "False"
    /\ ~fs[output_file].ex

DssePayloadText ==
    LET dsse == json_loads(fs[output_file].data)
        payload == IF dsse.ok /\ IsDict(dsse.val) THEN Get(dsse.val, "payload", None) ELSE None
        bytes == IF IsStr(payload) THEN b64decode(payload.v) ELSE [ok |-> FALSE, bytes |-> <<>>]
    IN  IF bytes.ok THEN decode_utf8(bytes.bytes) ELSE [ok |-> FALSE, text |-> ""]

C3_Original ==
    (Returned /\ success = "True") =>
        LET decoded == DssePayloadText
        IN  decoded.ok /\ decoded.text = fs[PlainFile].data

(***************************************************************************)
(* C3, amended: after a successful conversion, the text that the DSSE      *)
(* file's payload decodes to and the content of the .slsa.json file are    *)
(* JSON documents of the same value (the same members, in the same order,  *)
(* a repeated key of the payload holding its last value); the .slsa.json   *)
(* file is that value as json.dump(indent=2) writes it, not the payload's  *)
(* own bytes.                                                              *)
(***************************************************************************)
C3_SameJsonValue ==
    (Returned /\ success = "True") =>
        LET decoded == DssePayloadText
            fromPayload == json_loads(decoded.text)
            fromPlain == json_loads(fs[PlainFile].data)
        IN  /\ decoded.ok
            /\ fromPayload.ok
            /\ fromPlain.ok
            /\ fromPayload.val = fromPlain.val
            /\ fs[PlainFile].data = json_dump_indent(fromPayload.val)

\* a successful conversion of the compact statement of the spec's example:
\* the plain file differs from the payload's bytes
C3_Witness ==
    /\ Returned
    /\ success = "True"
    /\ LET decoded == DssePayloadText
       IN  /\ decoded.ok
           /\ decoded.text = StmtExample
           /\ decoded.text # fs[PlainFile].data

(***************************************************************************)
(* C4: a second run of the same command line on an unchanged attestation   *)
(* file leaves every file as the first run left it, and returns and exits  *)
(* as the first run did.                                                   *)
(***************************************************************************)
\* the attestation file this run found is the one the previous run found
SameInput ==
    args.status = "ok" => start[args.attestation_file] = prev.start[args.attestation_file]

C4_Idempotent ==
    (pc = "exited" /\ run > 1 /\ SameInput) =>
        /\ fs = prev.end
        /\ success = prev.success
        /\ exit_code = prev.exit_code

\* the second of two successful runs that wrote all four files
C4_Witness ==
    /\ pc = "exited"
    /\ run = 2
    /\ SameInput
    /\ success = "True"
    /\ Kinds = <<"cert", "dsse", "plain", "bundle">>
    /\ \E n \in WrittenNames : prev.start[n] # fs[n]

(***************************************************************************)
(* C5, as claimed: for every output path, the output path and its .crt,    *)
(* .slsa.json and .bundle.json siblings are four different names, and no   *)
(* write of a run goes to a name an earlier write of the run went to.      *)
(***************************************************************************)
C5_Original ==
    output_file # "" =>
        /\ Cardinality({output_file, CertFile, PlainFile, BundleFile}) = 4
        /\ \A i, j \in 1..Len(written) : i < j => written[i].name # written[j].name

(***************************************************************************)
(* C6, as claimed: the process exits 0 exactly when the conversion         *)
(* succeeded and 1 otherwise; when the attestation file does not exist it  *)
(* exits 1 without calling the conversion and without writing.             *)
(***************************************************************************)
C6_Original ==
    pc = "exited" =>
        /\ exit_code \in {0, 1}
        /\ exit_code = 0 <=> success = "True"
        /\ success = "" => (exit_code = 1 /\ fs = start /\ written = <<>>)

(***************************************************************************)
(* C6, amended: once argparse has accepted the command line, the process   *)
(* exits 0 exactly when the conversion returned True and 1 otherwise; when *)
(* the attestation file does not exist it exits 1 without calling the      *)
(* conversion and without writing.  argparse itself ends the process,      *)
(* before any file is touched, with exit code 2 on a usage error and with  *)
(* exit code 0 for -h / --help.                                            *)
(***************************************************************************)
C6_ExitCodes ==
    pc = "exited" =>
        /\ args.status = "ok" =>
              /\ exit_code \in {0, 1}
              /\ exit_code = 0 <=> success = "True"
              /\ success # "" <=> start[args.attestation_file].ex
              /\ success = "" => (exit_code = 1 /\ fs = start /\ written = <<>>)
        /\ args.status # "ok" =>
              /\ exit_code = (IF args.status = "help" THEN 0 ELSE 2)
              /\ success = ""
              /\ fs = start
              /\ written = <<>>

\* the process has exited 1 because the conversion returned False
C6_Witness ==
    /\ pc = "exited"
    /\ args.status = "ok"
    /\ success = "False"
    /\ exit_code = 1

(***************************************************************************)
(* C7: once a step of a run has raised, the run performs no write, the     *)
(* files stay as they are and the function returns False; the writes of a  *)
(* failed run are the first ones of the order certificate (when there is   *)
(* one), DSSE, plain, bundle.                                              *)
(***************************************************************************)
\* the writes of a run on this record, in order
WriteOrder(hasCert) ==
    (IF hasCert THEN <<"cert">> ELSE <<>>) \o <<"dsse", "plain", "bundle">>

C7_FailedRun ==
    (Returned /\ error # "") =>
        /\ success = "False"
        /\ Len(written) <= Len(WriteOrder(Input.hasRawBytes))
        /\ Kinds = SubSeq(WriteOrder(Input.hasRawBytes), 1, Len(written))

C7_AfterError ==
    (error # "" /\ pc # "exited") =>
        /\ written' = written
        /\ fs' = fs
        /\ success' # "True"
        /\ error' = error

C7_ErrorIsTerminal == [](C7_FailedRun /\ (success = "True" => error = "")) /\ [][C7_AfterError]_vars

\* a run has failed on a write after it had written the certificate and the
\* DSSE file
C7_Witness ==
    /\ Returned
    /\ error = "PermissionError"
    /\ success = "False"
    /\ Kinds = <<"cert", "dsse">>

(***************************************************************************)
(* C8: on success the DSSE file is one line of compact JSON and a newline: *)
(* an object with the keys payload, payloadType and signatures, payload    *)
(* being the record's payload text, payloadType the record's when the key  *)
(* is there and 'application/vnd.in-toto+json' when not, signatures the    *)
(* record's sequence as it is (the empty list when the key is missing).    *)
(***************************************************************************)
C8_DsseFile ==
    (Returned /\ success = "True") =>
        LET text == fs[output_file].data
            line == Take(text, Len(text) - 1)
            dsse == json_loads(line)
            envelope == Input.envelope
        IN  /\ Len(text) > 0
            /\ Ch(text, Len(text)) = "\n"
            /\ FindFrom(line, {"\n", "\r"}, 1) = 0
            /\ dsse.ok
            /\ IsDict(dsse.val)
            /\ [n \in 1..Len(dsse.val.v) |-> dsse.val.v[n].k]
                  = <<"payload", "payloadType", "signatures">>
            /\ line = json_dump_compact(dsse.val)
            /\ Get(dsse.val, "payload", None) = Get(envelope, "payload", None)
            /\ Get(dsse.val, "payloadType", None) =
                  (IF HasKey(envelope, "payloadType")
                   THEN Get(envelope, "payloadType", None)
                   ELSE Str("application/vnd.in-toto+json"))
            /\ Get(dsse.val, "signatures", None) =
                  (IF HasKey(envelope, "signatures")
                   THEN Get(envelope, "signatures", None)
                   ELSE EmptyList)

\* a successful run on a record whose payloadType is present and null and
\* whose signatures are missing
C8_Witness ==
    /\ Returned
    /\ success = "True"
    /\ LET envelope == Input.envelope
       IN  /\ Get(envelope, "payloadType", Str("")) = None
           /\ ~HasKey(envelope, "signatures")
    /\ fs[output_file].ex

(***************************************************************************)
(* C9, as claimed: the .crt file is the line -----BEGIN CERTIFICATE-----,  *)
(* the canonical base64 text of the certificate bytes in lines of exactly  *)
(* 64 characters (the last one shorter, never empty), and the line         *)
(* -----END CERTIFICATE-----, every line ending with a newline, the footer *)
(* too.                                                                    *)
(***************************************************************************)
\* text is `head`, then base64 text b64 in lines of 64 characters each
\* ended by a newline, then `tail`
IsPem(text, b64, head, tail) ==
    LET body == SubSeq(text, Len(head) + 1, Len(text) - Len(tail))
        lines == (Len(b64) + 63) \div 64
    IN  /\ Len(text) >= Len(head) + Len(tail)
        /\ Take(text, Len(head)) = head
        /\ EndsWith(text, tail)
        /\ Len(body) = Len(b64) + lines
        /\ \A n \in 1..Len(body) :
              Ch(body, n) = (IF n % 65 = 0 \/ n = Len(body) THEN "\n"
                             ELSE Ch(b64, n - (n - 1) \div 65))

\* the certificate file has just been written
CertJustWritten == pc = "write_dsse" /\ Kinds = <<"cert">>

C9_Original ==
    CertJustWritten =>
        IsPem(fs[CertFile].data, b64encode(b64decode(Input.rawBytes.v).bytes),
              "-----BEGIN CERTIFICATE-----\n", "-----END CERTIFICATE-----\n")

\* no directory stands at path and no file stands above it
NothingAt(path) ==
    /\ path \notin zdirs
    /\ \A d \in Ancestors(path) : ~(d \in ZPaths /\ zfiles[d].ex)

(***************************************************************************)
(* C10, as claimed: for any path and any text content, a dump_file that    *)
(* returned leaves the file holding exactly the content, its parent        *)
(* directories created, and a read_file of the path then returns exactly   *)
(* the content last dumped; read_file of a path never written raises       *)
(* FileNotFoundError and creates no file.  The never-written case is taken *)
(* in its plainest reading: a path where no directory stands and under no  *)
(* file (there read_file raises IsADirectoryError or NotADirectoryError).  *)
(***************************************************************************)
C10_Original ==
    /\ (zlast.op = "dump_file" /\ zlast.raised = "") =>
          /\ zfiles[zlast.path] = zdumped[zlast.path]
          /\ Ancestors(zlast.path) \subseteq zdirs
    /\ (zlast.op = "read_file" /\ zdumped[zlast.path].ex) =>
          /\ zlast.raised = ""
          /\ zlast.value = zdumped[zlast.path].data
    /\ (zlast.op = "read_file" /\ ~zdumped[zlast.path].ex /\ NothingAt(zlast.path)) =>
          /\ zlast.raised = "FileNotFoundError"
          /\ ~zfiles[zlast.path].ex

\* this run is on a file with the first line of the previous run's file and
\* other later lines
OnOtherFile == run > 1 /\ prev.other

(***************************************************************************)
(* C11, as claimed: of two attestation files with the same first line that *)
(* differ in their later lines only, run with the same output path, both   *)
(* runs return the same success indicator and write the same files with    *)
(* the same bytes; and the input is read before any output is written.     *)
(***************************************************************************)
C11_Original ==
    /\ (Returned /\ OnOtherFile) =>
          /\ success = prev.success
          /\ written = prev.written
          /\ \A n \in Names :
                (n # args.attestation_file \/ n \in WrittenNames) => fs[n] = prev.end[n]
    /\ pc = "read" => written = <<>>

=============================================================================
